---- MODULE Spec2Model ----
(***************************************************************************)
(* A model of the AmneziaWG Prometheus exporter (src/exporter.py).         *)
(*                                                                         *)
(* Texts (the stdout of the status command) are sequences of one-character *)
(* strings, so that str.strip, str.splitlines and str.split are modelled   *)
(* by what they do.  A field of a line (a peer id, a counter) is therefore *)
(* a sequence of characters as well; client names, which come from the     *)
(* decoded identity table, are plain strings.                              *)
(***************************************************************************)
EXTENDS Integers, Sequences, FiniteSets, TLC

VARIABLES
    call,                     \* a call of a pure function: its arguments and result
    pc,                       \* position of main_loop
    ops_mode,                 \* config['ops_mode']
    clients_table_enabled,    \* config['clients_table_enabled']
    scrape_interval,          \* config['scrape_interval']
    sent_bytes_metric,        \* Gauge awg_sent_bytes: (peer, client_name) -> value
    received_bytes_metric,    \* Gauge awg_received_bytes
    latest_handshake_metric,  \* Gauge awg_latest_handshake_seconds
    status,                   \* Gauge awg_status
    metrics_file,             \* content of config['metrics_file']
    http_server,              \* number of metrics HTTP servers started
    escaped,                  \* what left main_loop: "none", an exception, "SystemExit"
    cycles,                   \* calls of update_metrics made by main_loop
    writes,                   \* completed writes of the metrics file
    sleeps,                   \* completed time.sleep calls
    last,                     \* observation of the latest update_metrics cycle
    exit_code,                \* <<>> while the process runs, <<n>> once it ended
    scrape                    \* a request served by the metrics HTTP server thread

vars == <<call, pc, ops_mode, clients_table_enabled, scrape_interval,
          sent_bytes_metric, received_bytes_metric, latest_handshake_metric,
          status, metrics_file, http_server, escaped, cycles, writes, sleeps, last,
          exit_code, scrape>>

(***************************************************************************)
(* Bounds of the model.                                                    *)
(***************************************************************************)
MaxLines == 2      \* peer lines of a generated report
MaxTable == 2      \* entries of a generated identity table
MaxCycles == 2     \* iterations of main_loop that are explored
MaxScrapes == 1    \* requests the metrics HTTP server serves

(***************************************************************************)
(* Characters and Python's string functions.                               *)
(***************************************************************************)
Whitespace == {" ", "\t", "\n", "\r", "\f"}

LineBreaks == {"\n", "\r", "\f"}

\* the first index >= i of s that holds a non-whitespace character, else Len(s) + 1
RECURSIVE SkipWhitespace(_, _)
SkipWhitespace(s, i) ==
    IF i > Len(s) \/ s[i] \notin Whitespace THEN i ELSE SkipWhitespace(s, i + 1)

\* the first index >= i of s that holds a character of C, else Len(s) + 1
RECURSIVE Find(_, _, _)
Find(s, i, C) ==
    IF i > Len(s) \/ s[i] \in C THEN i ELSE Find(s, i + 1, C)

\* the last index <= i of s that holds a non-whitespace character, else 0
RECURSIVE LastNonWhitespace(_, _)
LastNonWhitespace(s, i) ==
    IF i = 0 \/ s[i] \notin Whitespace THEN i ELSE LastNonWhitespace(s, i - 1)

\* str.strip(): leading and trailing whitespace removed
strip(s) == SubSeq(s, SkipWhitespace(s, 1), LastNonWhitespace(s, Len(s)))

\* str.splitlines(): cut at line boundaries ("\r\n" is one boundary); no empty
\* last line after a final boundary; the empty text has no lines
RECURSIVE SplitLinesFrom(_, _)
SplitLinesFrom(s, i) ==
    IF i > Len(s) THEN <<>>
    ELSE LET b == Find(s, i, LineBreaks)
             w == IF b < Len(s) /\ s[b] = "\r" /\ s[b + 1] = "\n" THEN 2 ELSE 1
         IN <<SubSeq(s, i, b - 1)>> \o SplitLinesFrom(s, b + w)

splitlines(s) == SplitLinesFrom(s, 1)

\* str.split(): the maximal runs of non-whitespace characters
RECURSIVE SplitFrom(_, _)
SplitFrom(s, i) ==
    LET a == SkipWhitespace(s, i)
        e == Find(s, a, Whitespace)
    IN IF a > Len(s) THEN <<>>
       ELSE <<SubSeq(s, a, e - 1)>> \o SplitFrom(s, e)

split(s) == SplitFrom(s, 1)

DigitChars == <<"0", "1", "2", "3", "4", "5", "6", "7", "8", "9">>

IsDigit(c) == \E i \in DOMAIN DigitChars : DigitChars[i] = c

DigitVal(c) == (CHOOSE i \in DOMAIN DigitChars : DigitChars[i] = c) - 1

RECURSIVE DecimalValue(_)
DecimalValue(s) ==
    IF s = <<>> THEN 0
    ELSE 10 * DecimalValue(SubSeq(s, 1, Len(s) - 1)) + DigitVal(s[Len(s)])

\* float(value) as Gauge.set applies it to a field of the report: a string of
\* digits converts to its number, a field with any other character of the
\* model's alphabet (letters) raises ValueError
PyFloat(s) ==
    IF s # <<>> /\ \A i \in 1..Len(s) : IsDigit(s[i])
    THEN [exc |-> "none", val |-> DecimalValue(s)]
    ELSE [exc |-> "ValueError", val |-> 0]

(***************************************************************************)
(* AwgShowWrapper.parse                                                    *)
(***************************************************************************)
\* a slip: a line of 6 or 7 fields is skipped like a short line
ParseLine_SkipsIncomplete(line) ==
    LET parts == split(line)
    IN IF Len(parts) >= 8
       THEN [exc |-> "none",
             peers |-> << [peer |-> parts[2], latest_handshake |-> parts[6],
                           received |-> parts[7], sent |-> parts[8]] >>]
       ELSE [exc |-> "none", peers |-> <<>>]

\* One line of the loop body: the record appended for an accepted line, an
\* IndexError when parts[6] or parts[7] does not exist, nothing for a short line
ParseLine(line) ==
    LET parts == split(line)
    IN IF Len(parts) >= 6
       THEN IF Len(parts) >= 8
            THEN [exc |-> "none",
                  peers |-> << [peer |-> parts[2], latest_handshake |-> parts[6],
                                received |-> parts[7], sent |-> parts[8]] >>]
            ELSE [exc |-> "IndexError", peers |-> <<>>]
       ELSE [exc |-> "none", peers |-> <<>>]

RECURSIVE ParseLines(_, _)
ParseLines(lines, peers) ==
    IF lines = <<>> THEN [exc |-> "none", peers |-> peers]
    ELSE LET r == ParseLine(Head(lines))
         IN IF r.exc # "none" THEN [exc |-> r.exc, peers |-> <<>>]
            ELSE ParseLines(Tail(lines), peers \o r.peers)

\* a slip: the header line is parsed like a peer line
DropFirst_KeepsHeader(lines) == lines

\* lines[1:]
DropFirst(lines) == IF lines = <<>> THEN <<>> ELSE Tail(lines)

parse(text_block) ==
    LET lines == splitlines(strip(text_block))
    IN ParseLines(DropFirst(lines), <<>>)

(***************************************************************************)
(* The display name of a peer: the expression                              *)
(*   next((client['userData']['clientName'] for client in clients_table    *)
(*         if client['clientId'] == peer['peer']), 'unidentified')         *)
(* over the decoded identity table.  A decoded table is                    *)
(* [kind |-> "list", items |-> <<entry, ...>>] or [kind |-> "number"] (a   *)
(* JSON document that is no array); an entry is a record that may lack     *)
(* clientId, userData or userData.clientName.                              *)
(***************************************************************************)
\* a slip: the last matching entry wins
ScanClients_LastMatch(items, peer_id) ==
    LET M == {i \in DOMAIN items :
                 "clientId" \in DOMAIN items[i] /\ items[i].clientId = peer_id}
        last_i == CHOOSE i \in M : \A j \in M : j <= i
    IN IF M = {} THEN [exc |-> "none", name |-> "unidentified"]
       ELSE IF "userData" \in DOMAIN items[last_i]
               /\ "clientName" \in DOMAIN items[last_i].userData
            THEN [exc |-> "none", name |-> items[last_i].userData.clientName]
            ELSE [exc |-> "KeyError", name |-> ""]

RECURSIVE ScanClients(_, _)
ScanClients(items, peer_id) ==
    IF items = <<>> THEN [exc |-> "none", name |-> "unidentified"]
    ELSE LET client == Head(items)
         IN IF "clientId" \notin DOMAIN client
            THEN [exc |-> "KeyError", name |-> ""]
            ELSE IF client.clientId = peer_id
                 THEN IF "userData" \notin DOMAIN client
                      THEN [exc |-> "KeyError", name |-> ""]
                      ELSE IF "clientName" \notin DOMAIN client.userData
                           THEN [exc |-> "KeyError", name |-> ""]
                           ELSE [exc |-> "none", name |-> client.userData.clientName]
                 ELSE ScanClients(Tail(items), peer_id)

ResolveName(clients_table, peer_id) ==
    IF clients_table.kind # "list"
    THEN [exc |-> "TypeError", name |-> ""]
    ELSE ScanClients(clients_table.items, peer_id)

(***************************************************************************)
(* Generated inputs.  A report is rendered from a header (a sequence of    *)
(* fields), peer lines (each a sequence of fields) and a style (the        *)
(* whitespace between fields, between lines and around the text).          *)
(***************************************************************************)
SeqsUpTo(S, n) == UNION {[1..k -> S] : k \in 0..n}

P1 == <<"P", "1">>

Q == <<"Q">>

R == <<"R">>

PeerIds == {P1, Q}

\* the nine fields of a peer line of `awg show all dump`
FullLine(peer) ==
    IF peer = P1
    THEN << <<"b", "l", "a">>, peer, <<"x">>, <<"x">>, <<"x">>,
            <<"5">>, <<"1", "0", "0">>, <<"2", "0", "0">> , <<"k">> >>
    ELSE << <<"w", "g">>, peer, <<"x">>, <<"x">>, <<"x">>,
            <<"7">>, <<"0", "3">>, <<"4">>, <<"k">> >>

FieldCounts == {0, 5, 6, 7, 8, 9}

GenLines == {SubSeq(FullLine(p), 1, n) : p \in PeerIds, n \in FieldCounts}

Headers == { << <<"h">>, <<"l">> >>,
             << <<"h">>, Q, <<"x">>, <<"x">>, <<"x">>, <<"9">>, <<"9">>, <<"9">> >> }

Styles ==
    << [sep |-> <<" ">>, nl |-> <<"\n">>, lead |-> <<>>, trail |-> <<>>],
       [sep |-> <<"\t", " ">>, nl |-> <<"\r", "\n">>, lead |-> <<"\n", " ">>,
        trail |-> <<" ", "\n">>],
       [sep |-> <<" ", " ">>, nl |-> <<"\n", " ">>, lead |-> <<>>, trail |-> <<"\n">>] >>

RECURSIVE Join(_, _)
Join(seqs, sep) ==
    IF seqs = <<>> THEN <<>>
    ELSE IF Len(seqs) = 1 THEN Head(seqs)
         ELSE Head(seqs) \o sep \o Join(Tail(seqs), sep)

\* the text of a report; a report without header is the empty report
Render(header, lines, style) ==
    LET st == Styles[style]
        all == IF header = <<>> THEN <<>> ELSE <<header>> \o lines
    IN st.lead \o Join([i \in DOMAIN all |-> Join(all[i], st.sep)], st.nl) \o st.trail

ParseInputs ==
    {[header |-> h, lines |-> ls, style |-> st] :
        h \in Headers, ls \in SeqsUpTo(GenLines, MaxLines), st \in DOMAIN Styles}
    \cup {[header |-> <<>>, lines |-> <<>>, style |-> st] : st \in DOMAIN Styles}

Names == {"alice", "bob"}

GoodEntries == {[clientId |-> p, userData |-> [clientName |-> n]] : p \in PeerIds, n \in Names}

NoClientId == [userData |-> [clientName |-> "alice"]]

NoClientName == [clientId |-> P1, userData |-> [creationDate |-> "x"]]

NoUserData == [clientId |-> Q]

GenTables ==
    {[kind |-> "list", items |-> it] :
        it \in SeqsUpTo(GoodEntries \cup {NoClientId, NoClientName, NoUserData}, MaxTable)}
    \cup {[kind |-> "number"]}

(***************************************************************************)
(* The exporter before main_loop runs: the registry as Exporter.__init__   *)
(* leaves it (no labelled series, awg_status 0).                           *)
(***************************************************************************)
NoSeries == [l \in {} |-> 0]

StrVal(s) == [type |-> "str", v |-> s]

BoolVal(b) == [type |-> "bool", v |-> b]

IntVal(n) == [type |-> "int", v |-> n]

NoCycle == [ran |-> FALSE]

NoScrape == [state |-> "idle", served |-> 0]

Constructed(mode, enabled, interval) ==
    /\ ops_mode = mode
    /\ clients_table_enabled = enabled
    /\ scrape_interval = interval
    /\ sent_bytes_metric = NoSeries
    /\ received_bytes_metric = NoSeries
    /\ latest_handshake_metric = NoSeries
    /\ status = 0
    /\ metrics_file = [written |-> FALSE]
    /\ http_server = 0
    /\ escaped = "none"
    /\ cycles = 0
    /\ writes = 0
    /\ sleeps = 0
    /\ last = NoCycle
    /\ exit_code = <<>>
    /\ scrape = NoScrape

mainVars == <<pc, ops_mode, clients_table_enabled, scrape_interval,
              sent_bytes_metric, received_bytes_metric, latest_handshake_metric,
              status, metrics_file, http_server, escaped, cycles, writes, sleeps, last,
              exit_code, scrape>>

(***************************************************************************)
(* The registry: Gauge.labels and Gauge.set of prometheus_client as the    *)
(* exporter uses them.  labels() creates the child series with value 0     *)
(* when it does not exist; set() stores float(value), and raises before    *)
(* storing when the conversion fails.                                      *)
(***************************************************************************)
SetAt(metric, l, v) == [x \in DOMAIN metric \cup {l} |-> IF x = l THEN v ELSE metric[x]]

\* a slip: a gauge keeps one child only
Labels_SingleChild(metric, l) == [x \in {l} |-> IF l \in DOMAIN metric THEN metric[l] ELSE 0]

Labels(metric, l) == IF l \in DOMAIN metric THEN metric ELSE SetAt(metric, l, 0)

\* a slip: the gauge accumulates (inc) instead of being set
GaugeSet_Accumulates(metric, l, value) ==
    LET child == Labels(metric, l)
        f == PyFloat(value)
    IN IF f.exc # "none"
       THEN [exc |-> f.exc, metric |-> child]
       ELSE [exc |-> "none", metric |-> SetAt(child, l, child[l] + f.val)]

GaugeSet(metric, l, value) ==
    LET child == Labels(metric, l)
        f == PyFloat(value)
    IN IF f.exc # "none"
       THEN [exc |-> f.exc, metric |-> child]
       ELSE [exc |-> "none", metric |-> SetAt(child, l, f.val)]

Registry ==
    [sent_bytes_metric |-> sent_bytes_metric,
     received_bytes_metric |-> received_bytes_metric,
     latest_handshake_metric |-> latest_handshake_metric,
     status |-> status]

(***************************************************************************)
(* Python truthiness of a configuration value: bool(x).                    *)
(***************************************************************************)
PyBool(x) ==
    IF x.type = "bool" THEN x.v
    ELSE IF x.type = "str" THEN x.v # ""
    ELSE x.v # 0

(***************************************************************************)
(* AwgShowWrapper.run_bin.  run is what subprocess.run does:               *)
(* [exc |-> "none", stdout |-> text] or [exc |-> <exception>].  Every      *)
(* handler of run_bin returns ''.                                          *)
(***************************************************************************)
ExceptionClasses ==
    {"CalledProcessError", "FileNotFoundError", "OSError", "IndexError", "KeyError",
     "TypeError", "ValueError", "JSONDecodeError"}

\* a slip: a bare `except:` in place of `except Exception`
CaughtByExceptException_Bare(e) == TRUE

\* `except Exception`: SystemExit and KeyboardInterrupt are no Exception
CaughtByExceptException(e) == e \in ExceptionClasses

\* a slip: only the non-zero exit is handled
run_bin_OnlyCalledProcessError(run) ==
    IF run.exc = "none" THEN [exc |-> "none", out |-> strip(run.stdout)]
    ELSE IF run.exc = "CalledProcessError" THEN [exc |-> "none", out |-> <<>>]
    ELSE [exc |-> run.exc, out |-> <<>>]

run_bin(run) ==
    IF run.exc = "none" THEN [exc |-> "none", out |-> strip(run.stdout)]
    ELSE IF CaughtByExceptException(run.exc) THEN [exc |-> "none", out |-> <<>>]
    ELSE [exc |-> run.exc, out |-> <<>>]

(***************************************************************************)
(* Exporter.read_clients_table.  file is the state of the table file:      *)
(* [kind |-> "missing"], [kind |-> "invalid"] (no JSON document) or        *)
(* [kind |-> "json", json |-> <decoded table>].                            *)
(***************************************************************************)
EmptyList == [kind |-> "list", items |-> <<>>]

read_clients_table(file) == IF file.kind = "json" THEN file.json ELSE EmptyList

(***************************************************************************)
(* Exporter.update_metrics                                                 *)
(***************************************************************************)
\* The operators below bind an intermediate result with {e : x \in {v}}: TLC
\* evaluates v once here, where it re-evaluates a LET definition at every use.
The(S) == CHOOSE x \in S : TRUE

\* lines 240-243: one iteration of `for peer in parsed_data`
SetPeerGauges(reg, peer, clients_table) ==
    The({ IF rn.exc # "none" THEN [exc |-> rn.exc, reg |-> reg, touched |-> {}]
          ELSE The({ The({
            IF s.exc # "none"
            THEN [exc |-> s.exc, reg |-> [reg EXCEPT !.sent_bytes_metric = s.metric],
                  touched |-> {<<"awg_sent_bytes", l>>}]
            ELSE The({
              IF r.exc # "none"
              THEN [exc |-> r.exc,
                    reg |-> [reg EXCEPT !.sent_bytes_metric = s.metric,
                                        !.received_bytes_metric = r.metric],
                    touched |-> {<<"awg_sent_bytes", l>>, <<"awg_received_bytes", l>>}]
              ELSE The({
                [exc |-> h.exc,
                 reg |-> [reg EXCEPT !.sent_bytes_metric = s.metric,
                                     !.received_bytes_metric = r.metric,
                                     !.latest_handshake_metric = h.metric],
                 touched |-> {<<"awg_sent_bytes", l>>, <<"awg_received_bytes", l>>,
                              <<"awg_latest_handshake_seconds", l>>}]
                : h \in {GaugeSet(reg.latest_handshake_metric, l, peer.latest_handshake)} })
              : r \in {GaugeSet(reg.received_bytes_metric, l, peer.received)} })
            : s \in {GaugeSet(reg.sent_bytes_metric, l, peer.sent)} })
          : l \in {<<peer.peer, rn.name>>} })
        : rn \in {ResolveName(clients_table, peer.peer)} })

RECURSIVE ForEachPeer(_, _, _, _)
ForEachPeer(reg, parsed_data, clients_table, touched) ==
    IF parsed_data = <<>> THEN [exc |-> "none", reg |-> reg, touched |-> touched]
    ELSE The({ IF p.exc # "none"
               THEN [exc |-> p.exc, reg |-> p.reg, touched |-> touched \cup p.touched]
               ELSE ForEachPeer(p.reg, Tail(parsed_data), clients_table,
                                touched \cup p.touched)
             : p \in {SetPeerGauges(reg, Head(parsed_data), clients_table)} })

\* the table file when a cycle does not open it
Unread == [kind |-> "unread"]

\* a slip: an empty report clears the published series
EmptyReport_Clears(reg) ==
    [reg EXCEPT !.status = 0, !.sent_bytes_metric = [l \in {} |-> 0],
                !.received_bytes_metric = [l \in {} |-> 0],
                !.latest_handshake_metric = [l \in {} |-> 0]]

\* lines 232-234: the report has no peer record
EmptyReport(reg) == [reg EXCEPT !.status = 0]

\* lines 235-238: the identity table of the cycle
LoadClientsTable(enabled, file) ==
    IF ~PyBool(enabled) THEN EmptyList ELSE read_clients_table(file)

\* line 244
CycleSucceeded(reg) == [reg EXCEPT !.status = 1]

\* what a cycle observed: the parsed records, the table it used and the table
\* file when read_clients_table opened it
Seen(parsed_data, clients_table, file) ==
    [parsed_data |-> parsed_data, clients_table |-> clients_table, table_file |-> file]

\* a slip: status.set(1) runs whether or not the loop completed
PublishPeers_AlwaysSucceeds(reg, parsed_data, enabled, file) ==
    The({ The({
        [exc |-> loop.exc,
         reg |-> CycleSucceeded(loop.reg),
         touched |-> loop.touched,
         seen |-> Seen(parsed_data, clients_table, IF PyBool(enabled) THEN file ELSE Unread)]
        : loop \in {ForEachPeer(reg, parsed_data, clients_table, {})} })
      : clients_table \in {LoadClientsTable(enabled, file)} })

\* lines 235-244, reached with at least one peer record
PublishPeers(reg, parsed_data, enabled, file) ==
    The({ The({
        [exc |-> loop.exc,
         reg |-> IF loop.exc # "none" THEN loop.reg ELSE CycleSucceeded(loop.reg),
         touched |-> loop.touched,
         seen |-> Seen(parsed_data, clients_table, IF PyBool(enabled) THEN file ELSE Unread)]
        : loop \in {ForEachPeer(reg, parsed_data, clients_table, {})} })
      : clients_table \in {LoadClientsTable(enabled, file)} })

\* lines 231-244, given the string run_bin returned
UseReport(reg, awg_show_result, enabled, file) ==
    The({ IF parsed.exc # "none"
          THEN [exc |-> parsed.exc, reg |-> reg, touched |-> {},
                seen |-> Seen(<<>>, EmptyList, Unread)]
          ELSE IF parsed.peers = <<>>
               THEN [exc |-> "none", reg |-> EmptyReport(reg), touched |-> {},
                     seen |-> Seen(<<>>, EmptyList, Unread)]
               ELSE PublishPeers(reg, parsed.peers, enabled, file)
        : parsed \in {parse(awg_show_result)} })

\* the try block, lines 230-244
UpdateMetricsBody(reg, run, enabled, file) ==
    The({ IF awg_show_result.exc # "none"
          THEN [exc |-> awg_show_result.exc, reg |-> reg, touched |-> {},
                seen |-> Seen(<<>>, EmptyList, Unread)]
          ELSE UseReport(reg, awg_show_result.out, enabled, file)
        : awg_show_result \in {run_bin(run)} })

\* a slip: the handler catches ValueError only
Propagated_OnlyValueError(exc) == IF exc = "ValueError" THEN "none" ELSE exc

\* lines 245-246: what the handler of update_metrics lets through to the caller
Propagated(exc) == IF CaughtByExceptException(exc) THEN "none" ELSE exc

\* exc is the exception the handler logged ("none": the try block completed),
\* raised the exception that leaves update_metrics
update_metrics(reg, run, enabled, file) ==
    The({ [reg |-> b.reg, touched |-> b.touched, seen |-> b.seen,
           exc |-> IF b.exc # "none" /\ Propagated(b.exc) = "none" THEN b.exc ELSE "none",
           raised |-> IF b.exc = "none" THEN "none" ELSE Propagated(b.exc)]
        : b \in {UpdateMetricsBody(reg, run, enabled, file)} })

(***************************************************************************)
(* Specifications of the pure functions: the input is drawn in the initial *)
(* state and one action applies the function.                              *)
(***************************************************************************)
InitParse ==
    /\ \E r \in ParseInputs :
          call = [fn |-> "parse", header |-> r.header, lines |-> r.lines,
                  text_block |-> Render(r.header, r.lines, r.style),
                  done |-> FALSE, ret |-> [exc |-> "none", peers |-> <<>>]]
    /\ pc = "none"
    /\ Constructed("http", StrVal("false"), IntVal(60))

ParseCall ==
    /\ call.fn = "parse"
    /\ ~call.done
    /\ call' = [call EXCEPT !.done = TRUE, !.ret = parse(call.text_block)]
    /\ UNCHANGED mainVars

SpecParse == InitParse /\ [][ParseCall]_vars

InitResolve ==
    /\ \E t \in GenTables, p \in PeerIds \cup {R} :
          call = [fn |-> "resolve", clients_table |-> t, peer_id |-> p,
                  done |-> FALSE, ret |-> [exc |-> "none", name |-> ""]]
    /\ pc = "none"
    /\ Constructed("http", StrVal("false"), IntVal(60))

ResolveCall ==
    /\ call.fn = "resolve"
    /\ ~call.done
    /\ call' = [call EXCEPT !.done = TRUE,
                            !.ret = ResolveName(call.clients_table, call.peer_id)]
    /\ UNCHANGED mainVars

SpecResolve == InitResolve /\ [][ResolveCall]_vars

(***************************************************************************)
(* The exporter process: __main__ builds the configuration, constructs the *)
(* Exporter and calls main_loop.  The environment decides, at each step,   *)
(* what the status command prints, what the identity table file holds and  *)
(* whether the metrics file can be written.                                *)
(***************************************************************************)
H == << <<"h">>, <<"l">> >>

Line8(peer, handshake, received, sent) ==
    << <<"b", "l", "a">>, peer, <<"x">>, <<"x">>, <<"x">>, handshake, received, sent >>

CycleReports ==
    << [header |-> <<>>, lines |-> <<>>, style |-> 1],
       [header |-> H, lines |-> <<>>, style |-> 2],
       [header |-> H, lines |-> << SubSeq(FullLine(P1), 1, 8) >>, style |-> 1],
       [header |-> H, style |-> 1,
        lines |-> << SubSeq(FullLine(P1), 1, 8), Line8(P1, <<"9">>, <<"1">>, <<"2">>) >>],
       [header |-> H, style |-> 3,
        lines |-> << FullLine(Q), Line8(P1, <<"5">>, <<"z", "z">>, <<"2", "0", "0">>) >>],
       [header |-> H, style |-> 1,
        lines |-> << SubSeq(FullLine(P1), 1, 8), SubSeq(FullLine(Q), 1, 6) >>],
       [header |-> H, style |-> 2,
        lines |-> << SubSeq(FullLine(P1), 1, 5), FullLine(Q) >>],
       [header |-> H, style |-> 1,
        lines |-> << SubSeq(FullLine(Q), 1, 7), SubSeq(FullLine(P1), 1, 8) >>] >>

\* subprocess.run raises: non-zero exit, binary not found, anything else
CommandFailures == {"CalledProcessError", "FileNotFoundError", "OSError"}

Runs ==
    {[exc |-> "none", stdout |-> Render(r.header, r.lines, r.style)] :
        r \in {CycleReports[i] : i \in DOMAIN CycleReports}}
    \cup {[exc |-> e] : e \in CommandFailures}

\* SIGTERM or SIGINT arrives while subprocess.run waits for the command: the
\* handler (lines 176-196) raises SystemExit out of subprocess.run
Interrupts == {[exc |-> "SystemExit"]}

Entry(peer, name) == [clientId |-> peer, userData |-> [clientName |-> name]]

JsonFile(items) == [kind |-> "json", json |-> [kind |-> "list", items |-> items]]

TableFiles ==
    { [kind |-> "missing"],
      [kind |-> "invalid"],
      JsonFile(<<>>),
      JsonFile(<< Entry(P1, "alice"), Entry(P1, "bob") >>),
      JsonFile(<< NoClientId >>),
      JsonFile(<< Entry(Q, "bob"), NoClientName >>) }

OpsModes == {"http", "metricsfile", "oneshot", "textfile"}

\* config() has no cast: a value read from the environment is a string, the
\* default is the default as written ('false', 60).  An Exporter constructed
\* directly may be given a Python bool.
EnabledValues == {StrVal("false"), StrVal("true"), BoolVal(FALSE)}

IntervalValues == {IntVal(60), StrVal("60")}

Init ==
    /\ call = [fn |-> "none"]
    /\ pc = "start"
    /\ \E mode \in OpsModes, enabled \in EnabledValues, interval \in IntervalValues :
          Constructed(mode, enabled, interval)

config == <<ops_mode, clients_table_enabled, scrape_interval>>

gauges == <<sent_bytes_metric, received_bytes_metric, latest_handshake_metric, status>>

peer_gauges == <<sent_bytes_metric, received_bytes_metric, latest_handshake_metric>>

counters == <<cycles, writes, sleeps>>

\* a slip: the server is started in every mode
StartLoop_EveryMode ==
    /\ pc = "start"
    /\ pc' = "cycle"
    /\ http_server' = http_server + 1
    /\ UNCHANGED <<call, config, gauges, metrics_file, escaped, counters, last,
                   exit_code, scrape>>

\* lines 252-259 when start_http_server is not called or returns
StartLoop ==
    /\ pc = "start"
    /\ pc' = "cycle"
    /\ http_server' = IF ops_mode = "http" THEN http_server + 1 ELSE http_server
    /\ UNCHANGED <<call, config, gauges, metrics_file, escaped, counters, last,
                   exit_code, scrape>>

\* line 257: start_http_server raises (the port is taken)
StartHttpFails ==
    /\ pc = "start"
    /\ ops_mode = "http"
    /\ pc' = "start_failed"
    /\ escaped' = "OSError"
    /\ exit_code' = <<1>>
    /\ UNCHANGED <<call, config, gauges, metrics_file, http_server, counters, last, scrape>>

\* line 262 and the tests of lines 263 and 265 that choose the next statement
Cycle(run, file) ==
    /\ pc = "cycle"
    /\ cycles < MaxCycles
    /\ \E u \in {update_metrics(Registry, run, clients_table_enabled, file)} :
          /\ sent_bytes_metric' = u.reg.sent_bytes_metric
          /\ received_bytes_metric' = u.reg.received_bytes_metric
          /\ latest_handshake_metric' = u.reg.latest_handshake_metric
          /\ status' = u.reg.status
          /\ last' = [ran |-> TRUE, run |-> run, run_exc |-> run.exc,
                      table_file |-> u.seen.table_file,
                      parsed_data |-> u.seen.parsed_data,
                      clients_table |-> u.seen.clients_table,
                      touched |-> u.touched, exc |-> u.exc, raised |-> u.raised]
          /\ pc' = IF u.raised = "none"
                   THEN IF ops_mode \in {"metricsfile", "oneshot"} THEN "write" ELSE "sleep"
                   ELSE IF CaughtByExceptException(u.raised) THEN "handler"
                   ELSE IF u.raised = "SystemExit" THEN "exited" ELSE "crashed"
          /\ escaped' = IF u.raised # "none" /\ ~CaughtByExceptException(u.raised)
                        THEN u.raised ELSE escaped
          /\ exit_code' = IF u.raised = "none" \/ CaughtByExceptException(u.raised)
                          THEN exit_code
                          ELSE IF u.raised = "SystemExit" THEN <<0>> ELSE <<1>>
    /\ cycles' = cycles + 1
    /\ UNCHANGED <<call, config, metrics_file, http_server, writes, sleeps, scrape>>

\* a slip: the file is written only after a successful cycle
WriteMetricsFile_OnlyAfterSuccess ==
    /\ pc = "write"
    /\ metrics_file' = IF status = 1 THEN [written |-> TRUE, registry |-> Registry]
                       ELSE metrics_file
    /\ writes' = writes + 1
    /\ pc' = IF ops_mode = "oneshot" THEN "done" ELSE "sleep"
    /\ exit_code' = IF ops_mode = "oneshot" THEN <<0>> ELSE exit_code
    /\ UNCHANGED <<call, config, gauges, http_server, escaped, cycles, sleeps, last, scrape>>

\* line 264, write_to_textfile replaces the file; lines 265-267 follow
WriteMetricsFile ==
    /\ pc = "write"
    /\ metrics_file' = [written |-> TRUE, registry |-> Registry]
    /\ writes' = writes + 1
    /\ pc' = IF ops_mode = "oneshot" THEN "done" ELSE "sleep"
    /\ exit_code' = IF ops_mode = "oneshot" THEN <<0>> ELSE exit_code
    /\ UNCHANGED <<call, config, gauges, http_server, escaped, cycles, sleeps, last, scrape>>

\* line 264, write_to_textfile raises (the directory is missing, not writable)
WriteMetricsFileFails ==
    /\ pc = "write"
    /\ pc' = "handler"
    /\ UNCHANGED <<call, config, gauges, metrics_file, http_server, escaped, counters, last,
                   exit_code, scrape>>

\* time.sleep(secs) raises TypeError unless secs is a number
SleepRaises(secs) == secs.type # "int"

\* line 268
Sleep ==
    /\ pc = "sleep"
    /\ IF SleepRaises(scrape_interval)
       THEN pc' = "handler" /\ sleeps' = sleeps
       ELSE pc' = "cycle" /\ sleeps' = sleeps + 1
    /\ UNCHANGED <<call, config, gauges, metrics_file, http_server, escaped, cycles,
                   writes, last, exit_code, scrape>>

\* lines 269-271: the handler of main_loop, whose sleep is outside any try
HandlerSleep ==
    /\ pc = "handler"
    /\ IF SleepRaises(scrape_interval)
       THEN pc' = "crashed" /\ escaped' = "TypeError" /\ sleeps' = sleeps
            /\ exit_code' = <<1>>
       ELSE pc' = "cycle" /\ escaped' = escaped /\ sleeps' = sleeps + 1
            /\ exit_code' = exit_code
    /\ UNCHANGED <<call, config, gauges, metrics_file, http_server, cycles, writes, last,
                   scrape>>

\* lines 176-196: SIGTERM or SIGINT once the handlers are registered; sys.exit(0)
\* raises SystemExit in the main thread, at the statement main_loop is at.  The
\* statements of lines 262-268 are inside the try of main_loop, the sleep of
\* line 271 is not.
Signal ==
    /\ pc \in {"cycle", "write", "sleep", "handler"}
    /\ IF pc # "handler" /\ CaughtByExceptException("SystemExit")
       THEN pc' = "handler" /\ escaped' = escaped /\ exit_code' = exit_code
       ELSE pc' = "exited" /\ escaped' = "SystemExit" /\ exit_code' = <<0>>
    /\ UNCHANGED <<call, config, gauges, metrics_file, http_server, counters, last, scrape>>

Next ==
    \/ StartLoop
    \/ StartHttpFails
    \/ \E run \in Runs \cup Interrupts, file \in TableFiles : Cycle(run, file)
    \/ WriteMetricsFile
    \/ WriteMetricsFileFails
    \/ Sleep
    \/ HandlerSleep
    \/ Signal

Spec == Init /\ [][Next]_vars

(***************************************************************************)
(* http mode, step by step.  start_http_server (line 257) starts a thread  *)
(* that serves requests from self.registry while the main thread runs      *)
(* update_metrics; neither takes a lock around a cycle or around a         *)
(* request.  The main thread is followed through update_metrics one gauge  *)
(* write at a time; the server thread renders the registry one metric at a *)
(* time, in the order of registration (lines 158-173).  `call` holds the   *)
(* update_metrics call in progress.                                        *)
(*                                                                         *)
(* scrape.points is a history of the request being served: the registry    *)
(* as it stood at the instants of the request at which no cycle was in     *)
(* progress, and, for a request that begins inside a cycle, the registry   *)
(* as it stood before that cycle.                                          *)
(***************************************************************************)
InitHttp ==
    /\ call = [fn |-> "none"]
    /\ pc = "start"
    /\ \E enabled \in {StrVal("true"), BoolVal(FALSE)} :
          Constructed("http", enabled, IntVal(60))

\* update_metrics returns (or its handler has logged): the next statement of
\* main_loop in http mode is the sleep of line 268
ReturnFromCycle ==
    /\ pc' = "sleep"
    /\ call' = [fn |-> "none"]
    /\ scrape' = IF scrape.state = "reading"
                 THEN [scrape EXCEPT !.points = @ \cup {Registry'}]
                 ELSE scrape

\* lines 230-238: the command is run and parsed, the identity table loaded
BeginCycle(run, file) ==
    /\ pc = "cycle"
    /\ cycles < MaxCycles
    /\ cycles' = cycles + 1
    /\ \E parsed \in {parse(run_bin(run).out)} :
          IF parsed.exc # "none"
          THEN UNCHANGED gauges /\ ReturnFromCycle
          ELSE IF parsed.peers = <<>>
               THEN /\ status' = EmptyReport(Registry).status
                    /\ UNCHANGED peer_gauges
                    /\ ReturnFromCycle
               ELSE /\ call' = [fn |-> "update_metrics", parsed_data |-> parsed.peers,
                                clients_table |->
                                    LoadClientsTable(clients_table_enabled, file),
                                peer |-> 1, gauge |-> 1, before |-> Registry]
                    /\ pc' = "publish"
                    /\ UNCHANGED <<gauges, scrape>>
    /\ UNCHANGED <<config, metrics_file, http_server, escaped, writes, sleeps, last,
                   exit_code>>

\* the statement that follows a gauge write of lines 241-243
AfterGaugeSet ==
    IF call.gauge < 3
    THEN /\ call' = [call EXCEPT !.gauge = @ + 1]
         /\ UNCHANGED <<pc, scrape>>
    ELSE IF call.peer < Len(call.parsed_data)
         THEN /\ call' = [call EXCEPT !.peer = @ + 1, !.gauge = 1]
              /\ UNCHANGED <<pc, scrape>>
         ELSE /\ pc' = "status"
              /\ UNCHANGED <<call, scrape>>

\* lines 240-243: the name of the peer is resolved and one gauge is written
SetGauge ==
    /\ pc = "publish"
    /\ \E peer \in {call.parsed_data[call.peer]} :
       \E rn \in {ResolveName(call.clients_table, peer.peer)} :
          IF rn.exc # "none"
          THEN UNCHANGED gauges /\ ReturnFromCycle
          ELSE \E g \in {IF call.gauge = 1
                          THEN GaugeSet(sent_bytes_metric, <<peer.peer, rn.name>>, peer.sent)
                          ELSE IF call.gauge = 2
                          THEN GaugeSet(received_bytes_metric, <<peer.peer, rn.name>>,
                                        peer.received)
                          ELSE GaugeSet(latest_handshake_metric, <<peer.peer, rn.name>>,
                                        peer.latest_handshake)} :
                 /\ sent_bytes_metric' =
                        IF call.gauge = 1 THEN g.metric ELSE sent_bytes_metric
                 /\ received_bytes_metric' =
                        IF call.gauge = 2 THEN g.metric ELSE received_bytes_metric
                 /\ latest_handshake_metric' =
                        IF call.gauge = 3 THEN g.metric ELSE latest_handshake_metric
                 /\ status' = status
                 /\ IF g.exc # "none" THEN ReturnFromCycle ELSE AfterGaugeSet
    /\ UNCHANGED <<config, metrics_file, http_server, escaped, counters, last, exit_code>>

\* line 244
SetStatus ==
    /\ pc = "status"
    /\ status' = CycleSucceeded(Registry).status
    /\ UNCHANGED peer_gauges
    /\ ReturnFromCycle
    /\ UNCHANGED <<config, metrics_file, http_server, escaped, counters, last, exit_code>>

\* the registry at the latest instant at which no cycle was in progress
AtCycleBoundary == IF call.fn = "update_metrics" THEN call.before ELSE Registry

\* the server thread accepts a request
ScrapeBegin ==
    /\ http_server > 0
    /\ pc \in {"cycle", "publish", "status", "sleep"}
    /\ scrape.state \in {"idle", "done"}
    /\ scrape.served < MaxScrapes
    /\ scrape' = [state |-> "reading", served |-> scrape.served + 1, metric |-> 1,
                  view |-> <<>>, points |-> {AtCycleBoundary}]
    /\ UNCHANGED <<call, pc, config, gauges, metrics_file, http_server, escaped, counters,
                   last, exit_code>>

\* the metrics of self.registry in the order of their registration
Collectors ==
    << sent_bytes_metric, received_bytes_metric, latest_handshake_metric, status >>

\* what a request returned: the registry its four reads describe
View(view) ==
    [sent_bytes_metric |-> view[1], received_bytes_metric |-> view[2],
     latest_handshake_metric |-> view[3], status |-> view[4]]

\* the server thread reads the next metric; the response is complete after
\* the last one
ScrapeRead ==
    /\ scrape.state = "reading"
    /\ scrape' = [scrape EXCEPT
                     !.view = Append(@, Collectors[scrape.metric]),
                     !.metric = @ + 1,
                     !.state = IF scrape.metric = Len(Collectors) THEN "done" ELSE @]
    /\ UNCHANGED <<call, pc, config, gauges, metrics_file, http_server, escaped, counters,
                   last, exit_code>>

NextHttp ==
    \/ StartLoop
    \/ StartHttpFails
    \/ \E run \in Runs, file \in TableFiles : BeginCycle(run, file)
    \/ SetGauge
    \/ SetStatus
    \/ Sleep
    \/ ScrapeBegin
    \/ ScrapeRead

SpecHttp == InitHttp /\ [][NextHttp]_vars

(***************************************************************************)
(* Properties.                                                             *)
(***************************************************************************)
\* a step of main_loop that ran update_metrics
CycleStep == cycles' = cycles + 1

\* the label pair under which a record of the latest cycle is published
LabelsOf(peer) == <<peer.peer, ResolveName(last.clients_table, peer.peer).name>>

\* the three gauges hold the values of the record under its label pair
Published(peer) ==
    LET l == LabelsOf(peer)
    IN /\ l \in DOMAIN sent_bytes_metric
       /\ l \in DOMAIN received_bytes_metric
       /\ l \in DOMAIN latest_handshake_metric
       /\ sent_bytes_metric[l] = PyFloat(peer.sent).val
       /\ received_bytes_metric[l] = PyFloat(peer.received).val
       /\ latest_handshake_metric[l] = PyFloat(peer.latest_handshake).val

\* the latest cycle parsed at least one record and raised nothing
CompletedWithPeers ==
    /\ last.ran
    /\ last.exc = "none"
    /\ last.raised = "none"
    /\ last.parsed_data # <<>>

\* C1 as stated: after a cycle that parsed at least one peer record and raised
\* nothing, the gauges at (peer_id, resolved client_name) hold the values of
\* every record of the cycle, and awg_status is 1.
C1_EveryRecordPublished ==
    CompletedWithPeers =>
        /\ status = 1
        /\ \A i \in DOMAIN last.parsed_data : Published(last.parsed_data[i])

\* C1 amended: after a cycle that parsed at least one peer record and raised
\* nothing, awg_status is 1 and the gauges at (peer_id, resolved client_name)
\* hold the values of every record that is the last record of the report with
\* its peer id (a later record of the same peer overwrites an earlier one).
C1_LastRecordOfEachPeerPublished ==
    CompletedWithPeers =>
        /\ status = 1
        /\ \A i \in DOMAIN last.parsed_data :
              (\A j \in DOMAIN last.parsed_data :
                    j > i => last.parsed_data[j].peer # last.parsed_data[i].peer)
              => Published(last.parsed_data[i])

\* the end-to-end scenario: one record {P1, 5, 100, 200}, empty table
C1_Witness ==
    /\ CompletedWithPeers
    /\ last.parsed_data = << [peer |-> P1, latest_handshake |-> <<"5">>,
                              received |-> <<"1", "0", "0">>,
                              sent |-> <<"2", "0", "0">>] >>
    /\ last.clients_table = EmptyList
    /\ <<P1, "unidentified">> \in DOMAIN sent_bytes_metric
    /\ sent_bytes_metric[<<P1, "unidentified">>] = 200
    /\ received_bytes_metric[<<P1, "unidentified">>] = 100
    /\ latest_handshake_metric[<<P1, "unidentified">>] = 5
    /\ status = 1

\* C2: a cycle whose parsed peer sequence is empty sets awg_status to 0 and
\* leaves the three peer gauges (their series and values) as they were.
C2_EmptyReportTouchesNoPeerGauge ==
    [][(CycleStep /\ last'.exc = "none" /\ last'.raised = "none"
            /\ last'.parsed_data = <<>>)
        => (/\ status' = 0
            /\ sent_bytes_metric' = sent_bytes_metric
            /\ received_bytes_metric' = received_bytes_metric
            /\ latest_handshake_metric' = latest_handshake_metric)]_vars

\* an empty cycle after a cycle that published a peer: status 0, series still there
C2_Witness ==
    /\ last.ran
    /\ last.exc = "none"
    /\ last.parsed_data = <<>>
    /\ status = 0
    /\ DOMAIN sent_bytes_metric # {}
    /\ DOMAIN received_bytes_metric # {}
    /\ DOMAIN latest_handshake_metric # {}

\* clients_table_enabled is false: the Python value or the string 'false'
\* that the configuration loading supplies
ConfiguredFalse ==
    clients_table_enabled = BoolVal(FALSE) \/ clients_table_enabled = StrVal("false")

\* C3 as stated: with clients_table_enabled=false every series written in a
\* cycle has client_name "unidentified", whatever the table file holds.
C3_DisabledTableMeansUnidentified ==
    (last.ran /\ ConfiguredFalse) =>
        \A t \in last.touched : t[2][2] = "unidentified"

\* C4 as stated: in oneshot mode main_loop runs update_metrics once, writes
\* the metrics file once, ends the loop and never sleeps, whatever the
\* outcome of the cycle or of the file write.
C4_OneshotRunsOnce ==
    ops_mode = "oneshot" =>
        /\ sleeps = 0
        /\ cycles <= 1
        /\ pc = "done" => (cycles = 1 /\ writes = 1)

\* C5 as stated: in every mode other than oneshot no exception raised in a
\* loop iteration ever escapes main_loop.
C5_LoopNeverFatal == ops_mode # "oneshot" => pc # "crashed"

\* a cycle during which no signal handler ran
Uninterrupted == last.run_exc # "SystemExit"

FieldOf(line, k) == IF k \in DOMAIN line THEN line[k] ELSE <<"absent">>

RecordOf(line) ==
    [peer |-> FieldOf(line, 2), latest_handshake |-> FieldOf(line, 6),
     received |-> FieldOf(line, 7), sent |-> FieldOf(line, 8)]

ParseReturned == call.fn = "parse" /\ call.done

\* C7 as stated: for a header line followed by N peer lines of at least 6
\* fields each, parse returns N records in input order with peer = field[1],
\* latest_handshake = field[5], received = field[6], sent = field[7].
C7_ParseReturnsEveryLongLine ==
    (/\ ParseReturned
     /\ call.header # <<>>
     /\ \A i \in DOMAIN call.lines : Len(call.lines[i]) >= 6)
    => (/\ call.ret.exc = "none"
        /\ call.ret.peers = [i \in DOMAIN call.lines |-> RecordOf(call.lines[i])])

\* the peer lines of the input with at least 6 fields
LongLines == SelectSeq(call.lines, LAMBDA l : Len(l) >= 6)

\* C8: parse makes no record from the first line nor from a line with fewer
\* than 6 fields, and such lines raise nothing: the records returned are
\* those of the later lines with at least 6 fields, an error comes only with
\* such a line, and an empty or header-only input (or one whose peer lines
\* are all short) yields the empty sequence.
C8_ParseSkipsHeaderAndShortLines ==
    ParseReturned =>
        /\ call.ret.exc = "none" =>
              call.ret.peers = [i \in DOMAIN LongLines |-> RecordOf(LongLines[i])]
        /\ call.ret.exc # "none" => LongLines # <<>>
        /\ LongLines = <<>> => (call.ret.exc = "none" /\ call.ret.peers = <<>>)

\* a header of 8 fields, a short line and a full line: one record
C8_Witness ==
    /\ ParseReturned
    /\ Len(call.header) = 8
    /\ Len(call.lines) = 2
    /\ Len(call.lines[1]) = 5
    /\ Len(call.lines[2]) = 8
    /\ call.ret.exc = "none"
    /\ Len(call.ret.peers) = 1

WellFormedTable(t) ==
    /\ t.kind = "list"
    /\ \A i \in DOMAIN t.items :
          /\ {"clientId", "userData"} \subseteq DOMAIN t.items[i]
          /\ "clientName" \in DOMAIN t.items[i].userData

ResolveReturned == call.fn = "resolve" /\ call.done

\* the entries of the table whose clientId is the peer id
Matches == {i \in DOMAIN call.clients_table.items :
               call.clients_table.items[i].clientId = call.peer_id}

\* C9: over a table whose entries all have clientId and userData.clientName,
\* resolution returns "unidentified" when no clientId equals the peer id and
\* otherwise the clientName of the first such entry in table order.
C9_FirstMatchOrUnidentified ==
    (ResolveReturned /\ WellFormedTable(call.clients_table)) =>
        /\ call.ret.exc = "none"
        /\ Matches = {} => call.ret.name = "unidentified"
        /\ Matches # {} =>
              \E i \in Matches :
                  /\ \A j \in Matches : i <= j
                  /\ call.ret.name = call.clients_table.items[i].userData.clientName

\* two entries share the peer's clientId under different names: the first wins
C9_Witness ==
    /\ ResolveReturned
    /\ WellFormedTable(call.clients_table)
    /\ Len(call.clients_table.items) = 2
    /\ call.clients_table.items[1].clientId = call.peer_id
    /\ call.clients_table.items[2].clientId = call.peer_id
    /\ call.clients_table.items[1].userData.clientName
          # call.clients_table.items[2].userData.clientName
    /\ call.ret.name = call.clients_table.items[1].userData.clientName

\* the table file cannot be read, is no JSON, or its content is malformed
TableFailure(file) ==
    \/ file.kind \in {"missing", "invalid"}
    \/ file.kind = "json" /\ ~WellFormedTable(file.json)

AllNumeric(parsed_data) ==
    \A i \in DOMAIN parsed_data :
        /\ PyFloat(parsed_data[i].sent).exc = "none"
        /\ PyFloat(parsed_data[i].received).exc = "none"
        /\ PyFloat(parsed_data[i].latest_handshake).exc = "none"

PublishedAsUnidentified(peer) ==
    /\ <<peer.peer, "unidentified">> \in DOMAIN sent_bytes_metric
    /\ <<peer.peer, "unidentified">> \in DOMAIN received_bytes_metric
    /\ <<peer.peer, "unidentified">> \in DOMAIN latest_handshake_metric

\* C10 as stated: with clients_table_enabled true, a failure of the identity
\* table (missing, unreadable, no JSON, malformed content) never aborts the
\* cycle: every parsed peer is published as "unidentified" and awg_status
\* ends at 1.
C10_TableFailureNeverAborts ==
    (/\ last.ran
     /\ clients_table_enabled = StrVal("true")
     /\ TableFailure(last.table_file)
     /\ last.parsed_data # <<>>
     /\ AllNumeric(last.parsed_data))
    => (/\ last.exc = "none"
        /\ status = 1
        /\ \A i \in DOMAIN last.parsed_data :
              PublishedAsUnidentified(last.parsed_data[i]))

\* C11: after a cycle that returned, a cycle given the same command outcome
\* and the same identity table file leaves the registry (the series of the
\* three gauges, their values and awg_status) exactly as the first cycle
\* left it, whatever the registry was before the first cycle.
C11_SecondIdenticalCycleChangesNothing ==
    (last.ran /\ last.raised = "none")
    => update_metrics(Registry, last.run, clients_table_enabled, last.table_file).reg
         = Registry

\* a cycle that absorbed a ValueError half-way through a report, run from a
\* registry an earlier successful cycle had filled
C11_Witness ==
    /\ last.ran
    /\ cycles = 2
    /\ last.exc = "ValueError"
    /\ last.touched # {}
    /\ status = 1

\* the record of a cycle under which the series l was addressed
AppearsIn(l, cycle) ==
    \E i \in DOMAIN cycle.parsed_data :
        /\ cycle.parsed_data[i].peer = l[1]
        /\ ResolveName(cycle.clients_table, l[1]).name = l[2]

\* the step keeps every series of a gauge, and the value of every series
\* whose peer (under that client_name) is not in the report of the step
SeriesKept(before, after, stepped, cycle) ==
    /\ DOMAIN before \subseteq DOMAIN after
    /\ \A l \in DOMAIN before :
          after[l] # before[l] => (stepped /\ AppearsIn(l, cycle))

\* C12: no step removes a series of a peer gauge, and a series keeps its
\* value through every cycle whose report does not hold its peer under its
\* client_name (each gauge is a function of the label pair: one value).
C12_SeriesNeverShrinkNorReset ==
    [][/\ SeriesKept(sent_bytes_metric, sent_bytes_metric', CycleStep, last')
       /\ SeriesKept(received_bytes_metric, received_bytes_metric', CycleStep, last')
       /\ SeriesKept(latest_handshake_metric, latest_handshake_metric', CycleStep, last')
      ]_vars

\* P1 was published by the first cycle; the second cycle published Q only,
\* and the series of P1 still holds 200
C12_Witness ==
    /\ last.ran
    /\ last.exc = "none"
    /\ Len(last.parsed_data) = 1
    /\ last.parsed_data[1].peer = Q
    /\ <<P1, "unidentified">> \in DOMAIN sent_bytes_metric
    /\ sent_bytes_metric[<<P1, "unidentified">>] = 200
    /\ status = 1

\* C13: when the status command fails (non-zero exit, binary missing, any
\* other exception of subprocess.run) run_bin raises nothing and returns '',
\* the cycle raises nothing and ends with awg_status 0, and the peer gauges
\* keep their series and values.
C13_CommandFailureGivesStatusZero ==
    [][(CycleStep /\ last'.run_exc \in CommandFailures)
        => (/\ run_bin(last'.run) = [exc |-> "none", out |-> <<>>]
            /\ last'.exc = "none"
            /\ last'.raised = "none"
            /\ status' = 0
            /\ UNCHANGED peer_gauges)]_vars

\* the binary is missing in the cycle after one that published P1
C13_Witness ==
    /\ last.ran
    /\ last.run_exc = "FileNotFoundError"
    /\ status = 0
    /\ <<P1, "unidentified">> \in DOMAIN sent_bytes_metric
    /\ sent_bytes_metric[<<P1, "unidentified">>] = 200
    /\ received_bytes_metric[<<P1, "unidentified">>] = 100
    /\ latest_handshake_metric[<<P1, "unidentified">>] = 5

LoopPositions == {"cycle", "write", "sleep", "handler"}

\* C14: once main_loop runs its loop, a signal at any position of the loop
\* ends the process with exit code 0; a signal handled while update_metrics
\* waits for the command passes the handlers of run_bin, update_metrics and
\* main_loop, leaves the registry as it was and ends the process with exit
\* code 0; after the exit no step is taken.
C14_SignalExitsWithZero ==
    [][/\ pc \in LoopPositions
            => ENABLED (Signal /\ pc' = "exited" /\ exit_code' = <<0>>)
       /\ (CycleStep /\ ~Uninterrupted')
            => (/\ pc' = "exited"
                /\ last'.exc = "none"
                /\ last'.raised = "SystemExit"
                /\ UNCHANGED gauges)
       /\ pc' = "exited" => (exit_code' = <<0>> /\ escaped' = "SystemExit")
       /\ pc # "exited"
      ]_vars

\* a signal during the second cycle, after a first cycle that published
C14_Witness ==
    /\ pc = "exited"
    /\ exit_code = <<0>>
    /\ last.ran
    /\ ~Uninterrupted
    /\ cycles = 2
    /\ status = 1

RecognisedModes == {"http", "metricsfile", "oneshot"}

\* C15: the HTTP server is started once, before the first cycle, exactly
\* when ops_mode is http (main_loop ends before any cycle when the start
\* raises); in every other mode it is never started; with an unrecognised
\* mode the metrics file is never written and every cycle after the first
\* follows a completed sleep.
C15_HttpServerOnlyInHttpMode ==
    /\ http_server = IF ops_mode = "http" /\ pc \notin {"start", "start_failed"}
                     THEN 1 ELSE 0
    /\ cycles > 0 => pc \notin {"start", "start_failed"}
    /\ ops_mode \notin RecognisedModes
         => (/\ writes = 0
             /\ ~metrics_file.written
             /\ pc \notin {"write", "done"}
             /\ pc = "cycle" => sleeps = cycles)

\* http mode: one server, two cycles with a sleep between them
C15_Witness ==
    /\ ops_mode = "http"
    /\ http_server = 1
    /\ cycles = 2
    /\ sleeps = 1
    /\ last.ran

\* C16: in metricsfile mode a cycle that returns is followed by the write of
\* the metrics file, whatever the cycle did; a write that completes replaces
\* the file content by the registry, and the sleep of the loop body is
\* reached only from a completed write, so at that sleep the file equals the
\* registry.  In http mode the file is never written.
C16_MetricsfileWritesEveryIteration ==
    [][/\ ops_mode = "metricsfile"
            => (/\ (CycleStep /\ Uninterrupted') => pc' = "write"
                /\ writes' # writes
                     => (/\ pc = "write"
                         /\ writes' = writes + 1
                         /\ metrics_file' = [written |-> TRUE, registry |-> Registry]
                         /\ UNCHANGED gauges)
                /\ pc' = "sleep"
                     => (/\ pc = "write"
                         /\ writes' = writes + 1
                         /\ metrics_file'.registry = Registry'))
       /\ ops_mode = "http" => (~metrics_file'.written /\ writes' = 0)
      ]_vars

\* the second iteration absorbed a parse fault and still wrote the file
C16_Witness ==
    /\ ops_mode = "metricsfile"
    /\ pc = "sleep"
    /\ last.ran
    /\ last.exc = "IndexError"
    /\ cycles = 2
    /\ writes = 2
    /\ metrics_file = [written |-> TRUE, registry |-> Registry]

\* C17 as stated, for a non-numeric counter: a cycle in which a ValueError
\* is raised leaves the set of series and every value of the registry as
\* they were.
C17_FailedCycleIsNoOp ==
    [][(CycleStep /\ last'.exc = "ValueError") => UNCHANGED gauges]_vars

\* the reports with a peer line of exactly 6 or 7 fields
HasIncompleteLine(run) ==
    /\ run.exc = "none"
    /\ LET lines == DropFirst(splitlines(strip(run.stdout)))
       IN \E i \in DOMAIN lines : Len(split(lines[i])) \in {6, 7}

IncompleteRuns == {run \in Runs : HasIncompleteLine(run)}

\* C18: a report with a peer line of exactly 6 or 7 fields makes parse raise
\* IndexError; no record of the report is used, update_metrics absorbs the
\* fault, and awg_status and the peer gauges stay as they were.
C18_IncompleteLineDiscardsReport ==
    [][(CycleStep /\ last'.run \in IncompleteRuns)
        => (/\ parse(last'.run.stdout) = [exc |-> "IndexError", peers |-> <<>>]
            /\ last'.exc = "IndexError"
            /\ last'.raised = "none"
            /\ last'.touched = {}
            /\ UNCHANGED gauges)]_vars

\* a 6- or 7-field line in the report of the second cycle: P1 of the first
\* cycle is still published, status is still 1
C18_Witness ==
    /\ last.ran
    /\ cycles = 2
    /\ last.run \in IncompleteRuns
    /\ last.exc = "IndexError"
    /\ status = 1
    /\ <<P1, "unidentified">> \in DOMAIN received_bytes_metric
    /\ received_bytes_metric[<<P1, "unidentified">>] = 100

StatusConsistent ==
    /\ status \in {0, 1}
    /\ status = 1 => (/\ DOMAIN sent_bytes_metric # {}
                      /\ DOMAIN received_bytes_metric # {}
                      /\ DOMAIN latest_handshake_metric # {})

\* C19: awg_status is 0 or 1, and 1 only when each peer gauge has a series;
\* its value changes only in a cycle that raised nothing: to 1 after the
\* gauges of the report were set, to 0 on a report without peer record.
C19_StatusOnlyAfterAllPeers ==
    [][/\ StatusConsistent
       /\ StatusConsistent'
       /\ status' # status
            => (/\ CycleStep
                /\ last'.exc = "none"
                /\ last'.raised = "none"
                /\ IF status' = 1
                   THEN /\ last'.parsed_data # <<>>
                        /\ \A i \in DOMAIN last'.parsed_data :
                              \E l \in DOMAIN sent_bytes_metric' :
                                  /\ l[1] = last'.parsed_data[i].peer
                                  /\ <<"awg_sent_bytes", l>> \in last'.touched
                                  /\ <<"awg_received_bytes", l>> \in last'.touched
                                  /\ <<"awg_latest_handshake_seconds", l>> \in last'.touched
                   ELSE last'.parsed_data = <<>>)
      ]_vars

\* status 1 with the series of two peers, set by a cycle that raised nothing
C19_Witness ==
    /\ status = 1
    /\ last.ran
    /\ last.exc = "none"
    /\ last.parsed_data # <<>>
    /\ Cardinality(DOMAIN sent_bytes_metric) = 2
    /\ Cardinality(DOMAIN latest_handshake_metric) = 2

\* C20 as stated: what a request to the metrics server returns is the
\* registry as it stood at one instant of the request, and never a registry
\* in which a cycle has written some of its gauges and not the others.
C20_ScrapeIsSnapshotConsistent ==
    scrape.state = "done" => View(scrape.view) \in scrape.points

====
